---- MODULE Spec2Model ----
(***************************************************************************)
(* Model of the tasks API of src/index.js: one in-memory task list,        *)
(* POST /tasks, GET /tasks and PATCH /tasks/:id.  A request first arms a    *)
(* timer and returns; its callback runs in a later turn of the event loop, *)
(* to its end before another one starts.  In Spec and FillSpec requests    *)
(* are sent one at a time; in AsyncSpec and AsyncFillSpec several are in   *)
(* flight together.                                                        *)
(***************************************************************************)
EXTENDS Integers, Sequences, FiniteSets, TLC

VARIABLES tasks,    \* the `tasks` array (src/index.js:85)
          nextId,   \* number of ids uniqid() has handed out so far, plus one
          now,      \* the last instant read from moment() (see Instants)
          req,      \* the request served by the last step, NoRequest when that
                    \* step served none
          res,      \* the response sent by the last step
          prev,     \* the `tasks` array as it was before the last step
          timers,   \* the armed timers of setTimeout in the order of arming:
                    \* the timer, the request its callback is to serve, its delay
          responses \* per timer, the number of responses sent to the request
                    \* it was last armed for

vars == <<tasks, nextId, now, req, res, prev, timers, responses>>

----------------------------------------------------------------------------
(* Bounds of the exploration *)

MaxTasks == 4      \* Spec: no create is explored beyond this list length
MaxFill  == 52     \* FillSpec: no create is explored beyond this list length
MaxPending == 2    \* timers armed at the same time
MaxAsyncFill == 11 \* AsyncFillSpec: no create is explored beyond this list length
MaxClock == 1      \* seconds, later than the one of loading, in which a create is explored

----------------------------------------------------------------------------
(* Program constants *)

MaxNameLength == 50          \* name.length <= 50
TasksLimit == 50             \* tasks.length > 50
GET_TASKS_DELAY_MS == 0
POST_TASK_DELAY_MS == 0
PATCH_TASK_DELAY_MS == 0

----------------------------------------------------------------------------
(* Instants.  moment().format() writes the instant of the call to the second. *)
(* How far two instants are apart depends on the clock, the date and the time *)
(* zone of the machine; the program only stores and sends the instants back.  *)
(* An instant is modelled by its place in the order of the seconds stamped on *)
(* the tasks: two instants are the same number exactly when they read the     *)
(* same second, and the earlier one has the smaller number.  The numbers are  *)
(* not seconds.  The clock is taken never to be set back.                     *)

\* moment() at line 82, the instant of loading
LoadInstant == 0

\* moment().subtract(1, 'second') at line 76: an earlier second, whatever the
\* clock reads between the three calls of moment() at loading
OneSecondAgo == LoadInstant - 1

\* moment().subtract(3, 'months') at line 70: three calendar months earlier
\* in local time, which is before one second earlier
ThreeMonthsAgo == OneSecondAgo - 1

\* moment() when the clock last read the instant clock: the same second, or
\* the next second stamped
moment(clock) == {clock} \cup {c \in {clock + 1} : c <= MaxClock}

----------------------------------------------------------------------------
(* Strings are sequences of one-character strings *)

Upper == <<"A","B","C","D","E","F","G","H","I","J","K","L","M",
           "N","O","P","Q","R","S","T","U","V","W","X","Y","Z">>
Lower == <<"a","b","c","d","e","f","g","h","i","j","k","l","m",
           "n","o","p","q","r","s","t","u","v","w","x","y","z">>

Chars == {Upper[i] : i \in 1..Len(Upper)} \cup {Lower[i] : i \in 1..Len(Lower)}
            \cup {" ", "\t", "\n"}

LowerOf ==
    [c \in Chars |->
        IF \E i \in 1..Len(Upper) : Upper[i] = c
        THEN Lower[CHOOSE i \in 1..Len(Upper) : Upper[i] = c]
        ELSE c]

\* String.prototype.toLowerCase
ToLowerCase(s) == [i \in 1..Len(s) |-> LowerOf[s[i]]]

IsWhiteSpace(c) == c \in {" ", "\t", "\n"}

RECURSIVE TrimStart(_)
TrimStart(s) ==
    IF s # <<>> /\ IsWhiteSpace(Head(s)) THEN TrimStart(Tail(s)) ELSE s

RECURSIVE TrimEnd(_)
TrimEnd(s) ==
    IF s # <<>> /\ IsWhiteSpace(s[Len(s)])
    THEN TrimEnd(SubSeq(s, 1, Len(s) - 1))
    ELSE s

\* String.prototype.trim: what the specification calls trimming.  The source
\* never calls it; it is used only to state the claims.
Trim(s) == TrimEnd(TrimStart(s))

\* the specification's normalized name
Normalize(s) == ToLowerCase(Trim(s))

Repeat(c, n) == [i \in 1..n |-> c]

----------------------------------------------------------------------------
(* JavaScript values of a request body field *)

Undefined == [t |-> "undefined", s |-> <<>>, b |-> FALSE, n |-> 0]
Str(x)    == [t |-> "string",    s |-> x,    b |-> FALSE, n |-> 0]
Bool(x)   == [t |-> "boolean",   s |-> <<>>, b |-> x,     n |-> 0]
Num(x)    == [t |-> "number",    s |-> <<>>, b |-> FALSE, n |-> x]

\* typeof v
TypeOf(v) == v.t

----------------------------------------------------------------------------
(* Construction *)

BeWild == <<"b","e"," ","w","i","l","d">>
BeginThisWorkshop ==
    <<"b","e","g","i","n"," ","t","h","i","s"," ","w","o","r","k","s","h","o","p">>
FinishThisWorkshop ==
    <<"f","i","n","i","s","h"," ","t","h","i","s"," ","w","o","r","k","s","h","o","p">>

\* uniqid(): ids are distinct; the k-th id handed out is k
uniqid(k) == k

initialTasksAllDone ==
    << [id |-> uniqid(1), name |-> BeWild, done |-> TRUE,
        createdAt |-> ThreeMonthsAgo],
       [id |-> uniqid(2), name |-> BeginThisWorkshop, done |-> TRUE,
        createdAt |-> OneSecondAgo],
       [id |-> uniqid(3), name |-> FinishThisWorkshop, done |-> TRUE,
        createdAt |-> LoadInstant] >>

\* lines 65-84
initialTasks ==
    << [id |-> uniqid(1), name |-> BeWild, done |-> TRUE,
        createdAt |-> ThreeMonthsAgo],
       [id |-> uniqid(2), name |-> BeginThisWorkshop, done |-> TRUE,
        createdAt |-> OneSecondAgo],
       [id |-> uniqid(3), name |-> FinishThisWorkshop, done |-> FALSE,
        createdAt |-> LoadInstant] >>

NoTask == [id |-> 0, name |-> <<>>, done |-> FALSE, createdAt |-> 0]

\* the method of the requests a route serves
MethodOf(op) ==
    CASE op = "post" -> "POST"
      [] op = "get" -> "GET"
      [] op = "patch" -> "PATCH"
      [] OTHER -> ""

\* a request: the client that sends it, its method, its path /<key>/tasks/<id>
\* (key "" and id 0 when the path has no such segment), the route that serves
\* it ("unrouted" when none does) and the two fields read from req.body
RequestFrom(client, method, key, op, id, name, done) ==
    [client |-> client, method |-> method, key |-> key,
     op |-> op, id |-> id, name |-> name, done |-> done]

\* a request of client A to the route op
Request(op, id, name, done) ==
    RequestFrom("A", MethodOf(op), "", op, id, name, done)

NoRequest == Request("none", 0, Undefined, Undefined)

\* a response: the status and the parts of the body (those not sent are blank)
Response(status, kind, task, list, msg, named, errs) ==
    [status |-> status, kind |-> kind, task |-> task, list |-> list,
     errorMessage |-> msg, named |-> named, validationErrors |-> errs]

NoResponse == Response(0, "none", NoTask, <<>>, "", <<>>, {})

Timers == 1..MaxPending

Init ==
    /\ tasks = initialTasks
    /\ nextId = 4
    /\ now = LoadInstant
    /\ req = NoRequest
    /\ res = NoResponse
    /\ prev = initialTasks
    /\ timers = <<>>
    /\ responses = [n \in Timers |-> 0]

----------------------------------------------------------------------------
(* lodash and Array helpers *)

\* _.find(list, {name: n}): index of the first task named n, 0 when there is none
FindByName(list, n) ==
    IF \E i \in 1..Len(list) : list[i].name = n
    THEN CHOOSE i \in 1..Len(list) :
            /\ list[i].name = n
            /\ \A j \in 1..(i - 1) : list[j].name # n
    ELSE 0

\* _.find(list, {id}): index of the first task with that id, 0 when there is none
FindById(list, id) ==
    IF \E i \in 1..Len(list) : list[i].id = id
    THEN CHOOSE i \in 1..Len(list) :
            /\ list[i].id = id
            /\ \A j \in 1..(i - 1) : list[j].id # id
    ELSE 0

\* tasks.unshift() with no argument: nothing is inserted, nothing is removed
Unshift(list) == list

----------------------------------------------------------------------------
(* POST /tasks *)

PostNameErrorsBelowLimit(name) ==
    IF ~(TypeOf(name) = "string" /\ Len(name.s) < MaxNameLength)
    THEN {<<"name", "Must contain less than 50 characters">>}
    ELSE IF ~(TypeOf(name) = "string" /\ Len(name.s) > 0)
    THEN {<<"name", "Cannot be blank">>}
    ELSE {}

\* lines 141-142: the two assignments to validationErrorsByFieldName.name, in order
PostNameErrors(name) ==
    IF ~(TypeOf(name) = "string" /\ Len(name.s) <= MaxNameLength)
    THEN {<<"name", "Must contain less than 50 characters">>}
    ELSE IF ~(TypeOf(name) = "string" /\ Len(name.s) > 0)
    THEN {<<"name", "Cannot be blank">>}
    ELSE {}

DoneErrorsWhenPresent(done) ==
    IF ~(TypeOf(done) \in {"boolean", "undefined"})
    THEN {<<"done", "Must be a boolean value">>}
    ELSE {}

\* line 143 (and line 240 of PATCH)
DoneErrors(done) ==
    IF ~(TypeOf(done) = "boolean")
    THEN {<<"done", "Must be a boolean value">>}
    ELSE {}

PostValidationErrorsFirstOnly(name, done) ==
    IF PostNameErrors(name) # {} THEN PostNameErrors(name) ELSE DoneErrors(done)

\* lines 140-143
PostValidationErrors(name, done) == PostNameErrors(name) \cup DoneErrors(done)

PostExistingTaskByRawName(list, name) == FindByName(list, name.s)

\* line 150
PostExistingTask(list, name) == FindByName(list, ToLowerCase(name.s))

newTaskWithRawName(id, name, done, t) ==
    [id |-> id, name |-> name.s, done |-> done.b, createdAt |-> t]

\* line 156
newTask(id, name, done, t) ==
    [id |-> id, name |-> ToLowerCase(name.s), done |-> done.b, createdAt |-> t]

PushTaskAtFront(list, task) ==
    LET pushed == <<task>> \o list
    IN  IF Len(pushed) > TasksLimit THEN Unshift(pushed) ELSE pushed

\* lines 157-161
PushTask(list, task) ==
    LET pushed == Append(list, task)
    IN  IF Len(pushed) > TasksLimit THEN Unshift(pushed) ELSE pushed

\* lines 146-147 (and 243-244 of PATCH)
ValidationResponse(errs) ==
    Response(400, "validation", NoTask, <<>>, "provided attributes aren't valid",
             <<>>, errs)

ConflictResponseWithStatus409(name) ==
    Response(409, "conflict", NoTask, <<>>,
             "A task named \"...\" already exists on the server",
             ToLowerCase(name.s), {})

\* lines 152-153; `named` is the name quoted in the message
ConflictResponse(name) ==
    Response(400, "conflict", NoTask, <<>>,
             "A task named \"...\" already exists on the server",
             ToLowerCase(name.s), {})

\* lines 162-163
CreatedResponse(task) == Response(201, "task", task, <<>>, "", <<>>, {})

\* lines 137-164: the timer callback of POST /tasks; k is the next id of uniqid,
\* t the instant moment() returns
PostTasks(list, k, name, done, t) ==
    LET validationErrorsByFieldName == PostValidationErrors(name, done)
    IN  IF validationErrorsByFieldName # {}
        THEN [tasks |-> list, created |-> FALSE,
              res |-> ValidationResponse(validationErrorsByFieldName)]
        ELSE IF PostExistingTask(list, name) # 0
        THEN [tasks |-> list, created |-> FALSE, res |-> ConflictResponse(name)]
        ELSE LET task == newTask(uniqid(k), name, done, t)
             IN  [tasks |-> PushTask(list, task), created |-> TRUE,
                  res |-> CreatedResponse(task)]

----------------------------------------------------------------------------
(* GET /tasks *)

\* lines 186-188
GetTasks(list) ==
    [tasks |-> list, res |-> Response(200, "list", NoTask, list, "", <<>>, {})]

----------------------------------------------------------------------------
(* PATCH /tasks/:id *)

\* lines 239-240
PatchValidationErrors(done) == DoneErrors(done)

SetDoneRefreshingCreatedAt(list, i, done) ==
    [list EXCEPT ![i].done = done.b, ![i].createdAt = LoadInstant - 3]

SetDoneToggled(list, i, done) == [list EXCEPT ![i].done = ~list[i].done]

\* line 249: existingTask.done = done, on the element of the array itself
SetDone(list, i, done) == [list EXCEPT ![i].done = done.b]

\* line 250: res.json(existingTask), with the default status
UpdatedResponse(task) == Response(200, "task", task, <<>>, "", <<>>, {})

NotFoundAnsweredAsOk == Response(200, "text", NoTask, <<>>, "OK", <<>>, {})

\* line 252: res.sendStatus(404), whose body is the status text
NotFoundResponse == Response(404, "text", NoTask, <<>>, "Not Found", <<>>, {})

PatchTaskSilentWhenNotFound(list, id, done) ==
    LET validationErrorsByFieldName == PatchValidationErrors(done)
        existingTask == FindById(list, id)
    IN  IF validationErrorsByFieldName # {}
        THEN [tasks |-> list, res |-> ValidationResponse(validationErrorsByFieldName)]
        ELSE IF existingTask # 0
        THEN LET updated == SetDone(list, existingTask, done)
             IN  [tasks |-> updated, res |-> UpdatedResponse(updated[existingTask])]
        ELSE [tasks |-> list, res |-> NoResponse]

\* lines 235-253: the timer callback of PATCH /tasks/:id
PatchTask(list, id, done) ==
    LET validationErrorsByFieldName == PatchValidationErrors(done)
        existingTask == FindById(list, id)
    IN  IF validationErrorsByFieldName # {}
        THEN [tasks |-> list, res |-> ValidationResponse(validationErrorsByFieldName)]
        ELSE IF existingTask # 0
        THEN LET updated == SetDone(list, existingTask, done)
             IN  [tasks |-> updated, res |-> UpdatedResponse(updated[existingTask])]
        ELSE [tasks |-> list, res |-> NotFoundResponse]

----------------------------------------------------------------------------
(* Routing *)

\* lines 90, 136, 185, 234: what serves a request to /<key>/tasks/<id>.  The
\* documentation is mounted on /api-docs for every method and every path below
\* it, before the routes; no route has a key segment, and there is no DELETE
\* route
Route(method, key, id) ==
    IF key = "api-docs" THEN "api-docs"
    ELSE IF key = "" /\ id = 0 /\ method = "POST" THEN "post"
    ELSE IF key = "" /\ id = 0 /\ method = "GET" THEN "get"
    ELSE IF key = "" /\ id # 0 /\ method = "PATCH" THEN "patch"
    ELSE "unrouted"

\* a DELETE /tasks/:id request: no handler is registered for it between lines
\* 136 and 258, and Express answers 404 "Cannot DELETE ..." itself
DeleteRoute(list, id) ==
    [tasks |-> list,
     res |-> Response(404, "html", NoTask, <<>>, "Cannot DELETE", <<>>, {})]

\* a request to a path with a key segment.  Below /api-docs it is answered by
\* swaggerUi.setup (line 90) with the page of the documentation, as the
\* swagger-ui-express library documents it; any other keyed path matches no
\* route and Express answers 404 "Cannot <method> <path>" itself.  No handler
\* of the task routes is called
KeyedRoute(method, key, id, list) ==
    IF Route(method, key, id) = "api-docs"
    THEN [tasks |-> list,
          res |-> Response(200, "html", NoTask, <<>>, "Swagger UI", <<>>, {})]
    ELSE [tasks |-> list,
          res |-> Response(404, "html", NoTask, <<>>, "Cannot <method> <path>", <<>>, {})]

----------------------------------------------------------------------------
(* Requests explored *)

Clients == {"A", "B"}

\* a name of exactly 50 characters, in upper case
LongestName == Repeat("A", MaxNameLength)
TooLongName == Repeat("a", MaxNameLength + 1)
\* 51 characters of which 30 remain after trimming
PaddedName == Repeat(" ", 21) \o Repeat("a", 30)

\* the names of the POST requests: empty, blank, a short name in both cases,
\* a seeded name in capitals and behind a space, and names around the length limit
NameStrings ==
    { <<>>, <<" ">>, <<"a">>, <<"A">>,
      <<"B","e"," ","W","i","l","d">>, <<" ","b","e"," ","w","i","l","d">>,
      LongestName, TooLongName, PaddedName }

NameValues == {Undefined, Num(1)} \cup {Str(x) : x \in NameStrings}

DoneValues == {Undefined, Bool(TRUE), Bool(FALSE), Str(<<"t","r","u","e">>)}

\* the bodies {name, done} of the PATCH requests
PatchBodies ==
    { <<Undefined, Bool(TRUE)>>, <<Undefined, Bool(FALSE)>>,
      <<Str(<<"a">>), Bool(TRUE)>>, <<Str(<<"a">>), Undefined>>,
      <<Undefined, Undefined>>, <<Undefined, Str(<<"t","r","u","e">>)>> }

----------------------------------------------------------------------------
(* Requests and timer callbacks.  The handler of a route only arms a timer   *)
(* (lines 137, 186, 235) and returns; the callback runs in a later turn of   *)
(* the event loop and runs to its end before anything else does.             *)

\* the delay a route arms its timer with
DelayOf(op) ==
    CASE op = "post" -> POST_TASK_DELAY_MS
      [] op = "get" -> GET_TASKS_DELAY_MS
      [] OTHER -> PATCH_TASK_DELAY_MS

\* timer n is armed
Pending(n) == \E i \in 1..Len(timers) : timers[i].n = n

\* the number of responses a callback has sent when it returns
ResponsesSent(response) == IF response = NoResponse THEN 0 ELSE 1

\* the callback of the route that serves the request
Callback(request, list, k, t) ==
    IF request.op = "post"
    THEN PostTasks(list, k, request.name, request.done, t)
    ELSE IF request.op = "get"
    THEN LET r == GetTasks(list)
         IN  [tasks |-> r.tasks, created |-> FALSE, res |-> r.res]
    ELSE LET r == PatchTask(list, request.id, request.done)
         IN  [tasks |-> r.tasks, created |-> FALSE, res |-> r.res]

\* setTimeout(callback, delay) in the handler of a request: the first timer
\* not armed is armed for the request; nothing is read, written or answered
Arrive(request) ==
    \E n \in Timers :
        /\ ~Pending(n)
        /\ \A m \in Timers : m < n => Pending(m)
        /\ timers' = Append(timers, [n |-> n, request |-> request,
                                     delay |-> DelayOf(request.op)])
        /\ responses' = [responses EXCEPT ![n] = 0]
        /\ req' = NoRequest
        /\ res' = NoResponse
        /\ prev' = tasks
        /\ UNCHANGED <<tasks, nextId, now>>

\* POST /tasks of a client with body {name, done} is received; once the list
\* has limit tasks, only the requests that add no task are explored
PostArrive(client, name, done, limit) ==
    /\ Route("POST", "", 0) = "post"
    /\ Len(tasks) < limit \/ ~PostTasks(tasks, nextId, name, done, now).created
    /\ Arrive(RequestFrom(client, "POST", "", "post", 0, name, done))

\* GET /tasks of a client is received
GetArrive(client) ==
    /\ Route("GET", "", 0) = "get"
    /\ Arrive(RequestFrom(client, "GET", "", "get", 0, Undefined, Undefined))

\* PATCH /tasks/:id with body {name, done} is received; name is never read
PatchArrive(id, name, done) ==
    /\ Route("PATCH", "", id) = "patch"
    /\ Arrive(Request("patch", id, name, done))

\* the i-th armed timer is the next to expire: a timer armed before it with a
\* delay that is not longer expires first.  The three delays being equal,
\* callbacks run in the order in which the requests were received.
CanFire(i) ==
    \A j \in 1..(i - 1) : timers[j].delay > timers[i].delay

\* the callback of timer n runs, to its end; t is the instant moment() reads
\* if the callback comes to line 156
FireTimer(n) ==
    \E i \in 1..Len(timers), t \in moment(now) :
        LET request == timers[i].request
            r == Callback(request, tasks, nextId, t)
        IN  /\ timers[i].n = n
            /\ CanFire(i)
            /\ tasks' = r.tasks
            /\ nextId' = IF r.created THEN nextId + 1 ELSE nextId
            /\ now' = IF r.created THEN t ELSE now
            /\ req' = request
            /\ res' = r.res
            /\ prev' = tasks
            /\ timers' = SubSeq(timers, 1, i - 1) \o SubSeq(timers, i + 1, Len(timers))
            /\ responses' = [responses EXCEPT ![n] = @ + ResponsesSent(r.res)]

Fire == \E n \in Timers : FireTimer(n)

----------------------------------------------------------------------------
(* Spec: requests sent one at a time, each after the answer to the one before *)

\* no request is waiting for its callback
NoneInFlight == timers = <<>>

PostStepBy(client, name, done, limit) ==
    /\ NoneInFlight
    /\ PostArrive(client, name, done, limit)

PostStep(name, done, limit) == PostStepBy("A", name, done, limit)

\* client A posts every body, client B the name "a"
Post ==
    \/ \E name \in NameValues, done \in DoneValues : PostStep(name, done, MaxTasks)
    \/ PostStepBy("B", Str(<<"a">>), Bool(TRUE), MaxTasks)

GetBy(client) ==
    /\ NoneInFlight
    /\ GetArrive(client)

Get == \E client \in Clients : GetBy(client)

PatchStep(id, name, done) ==
    /\ NoneInFlight
    /\ PatchArrive(id, name, done)

Patch ==
    \E id \in 1..nextId, body \in PatchBodies : PatchStep(id, body[1], body[2])

\* DELETE /tasks/:id: answered by Express in the turn that receives it
Delete ==
    \E id \in 1..nextId :
        LET r == DeleteRoute(tasks, id)
        IN  /\ NoneInFlight
            /\ Route("DELETE", "", id) = "unrouted"
            /\ tasks' = r.tasks
            /\ req' = RequestFrom("A", "DELETE", "", "unrouted", id, Undefined, Undefined)
            /\ res' = r.res
            /\ prev' = tasks
            /\ UNCHANGED <<nextId, now, timers, responses>>

\* the requests of the keyed interface: <method> /<key>/tasks and
\* <method> /<key>/tasks/<id>, with a body that the task routes would accept
KeyedRequests ==
    { <<"POST", 0>>, <<"GET", 0>>, <<"PATCH", 1>>, <<"DELETE", 1>> }

\* the keys tried: one that is no part of the program, and the mount point
\* of the documentation
Keys == {"X", "api-docs"}

Keyed ==
    \E k \in KeyedRequests, key \in Keys :
        LET r == KeyedRoute(k[1], key, k[2], tasks)
        IN  /\ NoneInFlight
            /\ Route(k[1], key, k[2]) \in {"unrouted", "api-docs"}
            /\ tasks' = r.tasks
            /\ req' = RequestFrom("A", k[1], key, Route(k[1], key, k[2]), k[2],
                                   Str(<<"a">>), Bool(TRUE))
            /\ res' = r.res
            /\ prev' = tasks
            /\ UNCHANGED <<nextId, now, timers, responses>>

Next == Post \/ Get \/ Patch \/ Delete \/ Keyed \/ Fire

\* the event loop runs the callback of every timer whose delay has elapsed
Fairness == \A n \in Timers : WF_vars(FireTimer(n))

Spec == Init /\ [][Next]_vars /\ Fairness

----------------------------------------------------------------------------
(* A second exploration, which fills the list: the n-th create is named by n  *)
(* letters, and only the first task is patched.                               *)

FillName == Str(Repeat("a", nextId - 3))

FillPost == PostStep(FillName, Bool(FALSE), MaxFill)

FillPatch == \E done \in {Bool(TRUE), Bool(FALSE)} : PatchStep(1, Undefined, done)

FillNext == FillPost \/ Get \/ FillPatch \/ Fire

FillSpec == Init /\ [][FillNext]_vars /\ Fairness

----------------------------------------------------------------------------
(* Requests in flight together: up to MaxPending timers are armed            *)

\* the bodies of the POST requests: two names that differ by case only, and a
\* body without name
AsyncPostBodies ==
    { <<Str(<<"a">>), Bool(TRUE)>>, <<Str(<<"A">>), Bool(FALSE)>>,
      <<Undefined, Bool(TRUE)>> }

\* the PATCH requests: of a seeded task, of the task a create adds, and one
\* without done
AsyncPatches ==
    { <<1, Bool(TRUE)>>, <<4, Bool(TRUE)>>, <<1, Undefined>> }

AsyncPost ==
    \E body \in AsyncPostBodies : PostArrive("A", body[1], body[2], MaxTasks)

AsyncGet == GetArrive("B")

AsyncPatch == \E p \in AsyncPatches : PatchArrive(p[1], Undefined, p[2])

AsyncNext == AsyncPost \/ AsyncGet \/ AsyncPatch \/ Fire

AsyncSpec == Init /\ [][AsyncNext]_vars /\ Fairness

\* filling the list with requests in flight: a create is named after the
\* number of creates that have succeeded when it is received
AsyncFillPost == PostArrive("A", FillName, Bool(FALSE), MaxAsyncFill)

AsyncFillPatch ==
    \E done \in {Bool(TRUE), Bool(FALSE)} : PatchArrive(1, Undefined, done)

AsyncFillNext == AsyncFillPost \/ AsyncFillPatch \/ Fire

AsyncFillSpec == Init /\ [][AsyncFillNext]_vars /\ Fairness

----------------------------------------------------------------------------
(* Helpers of the claims *)

IsPost == req.op = "post"
IsGet == req.op = "get"
IsPatch == req.op = "patch"

NamesOf(list) == {list[i].name : i \in 1..Len(list)}
IdsOf(list) == {list[i].id : i \in 1..Len(list)}

HasError(field) == \E e \in res.validationErrors : e[1] = field

----------------------------------------------------------------------------
(* C1 *)

\* C1: after any sequence of create, list and update requests starting from the
\* seeded list, the task list never holds more than 10 tasks.
C1_ListNeverExceedsTen == Len(tasks) <= 10

\* The limit the source itself names (tasks.length > 50) is not kept either.
ListNeverExceedsTasksLimit == Len(tasks) <= TasksLimit

----------------------------------------------------------------------------
(* C2 *)

\* C2: when a successful create would make the list exceed the cap of 10, the
\* list after it is the previous list without its first element, followed by
\* the new task.
C2_CreateEvictsOldest ==
    (IsPost /\ res.status = 201 /\ Len(prev) + 1 > 10)
        => tasks = Tail(prev) \o <<res.task>>

\* The same at the limit the source names: a create on a list of 50 tasks.
CreateEvictsOldestAtTasksLimit ==
    (IsPost /\ res.status = 201 /\ Len(prev) + 1 > TasksLimit)
        => tasks = Tail(prev) \o <<res.task>>

----------------------------------------------------------------------------
(* C3 *)

\* C3 as stated: no two tasks of the list have the same normalized name, the
\* normalized name being the name trimmed and lower-cased.
C3_UniqueNormalizedNames ==
    \A i, j \in 1..Len(tasks) :
        i # j => Normalize(tasks[i].name) # Normalize(tasks[j].name)

\* C3 as amended: no two tasks of the list have the same lower-cased name
\* (names are lower-cased, never trimmed).
C3_UniqueLowerCasedNames ==
    \A i, j \in 1..Len(tasks) :
        i # j => ToLowerCase(tasks[i].name) # ToLowerCase(tasks[j].name)

\* a created task whose name differs from a seeded one by a leading space only
C3_Witness ==
    \E i \in 1..Len(tasks) :
        /\ tasks[i].id >= 4
        /\ tasks[i].name # BeWild
        /\ Trim(tasks[i].name) = BeWild

----------------------------------------------------------------------------
(* C4 *)

\* a create request that passes the validation of the specification (1 to 30
\* characters after trimming) and that of the source (1 to 50 characters)
ValidEitherWay(name, done) ==
    /\ TypeOf(name) = "string"
    /\ Len(name.s) \in 1..MaxNameLength
    /\ Len(Trim(name.s)) \in 1..30
    /\ TypeOf(done) = "boolean"

\* C4 as stated: a create request whose name normalizes (trim, lower-case) to
\* the name of a task of the list is rejected with status 400 and a conflict
\* message, and the list is unchanged.
C4_NormalizedDuplicateRejected ==
    (/\ IsPost
     /\ ValidEitherWay(req.name, req.done)
     /\ Normalize(req.name.s) \in NamesOf(prev))
        => (res.status = 400 /\ res.kind = "conflict" /\ tasks = prev)

\* C4 as amended: a create request with a boolean done and a string name of 1
\* to 50 characters whose lower-cased form (not trimmed) is the name of a task
\* of the list is rejected with status 400 and a conflict message naming it,
\* and the list is unchanged.
C4_LowerCasedDuplicateRejected ==
    (/\ IsPost
     /\ TypeOf(req.name) = "string"
     /\ Len(req.name.s) \in 1..MaxNameLength
     /\ TypeOf(req.done) = "boolean"
     /\ ToLowerCase(req.name.s) \in NamesOf(prev))
        => (/\ res.status = 400
            /\ res.kind = "conflict"
            /\ res.named = ToLowerCase(req.name.s)
            /\ tasks = prev)

\* a create in capitals rejected because of a task created earlier
C4_Witness ==
    /\ IsPost
    /\ res.kind = "conflict"
    /\ req.name.s # ToLowerCase(req.name.s)
    /\ \E i \in 1..Len(prev) : prev[i].id >= 4 /\ prev[i].name = res.named

----------------------------------------------------------------------------
(* C5 *)

\* the tasks a GET /tasks served in this state lists under the given name
ListedAs(n) ==
    LET listed == GetTasks(tasks).res.list
    IN  {i \in 1..Len(listed) : listed[i].name = n}

\* C5 as stated: for every name of 1 to 30 characters after trimming that is
\* not present and every boolean done, a create succeeds with status 201 and a
\* list request right after it shows exactly one task with the normalized
\* name, which has the given done.
C5_CreateThenListNormalized ==
    (/\ IsPost
     /\ TypeOf(req.name) = "string"
     /\ Len(Trim(req.name.s)) \in 1..30
     /\ TypeOf(req.done) = "boolean"
     /\ Normalize(req.name.s) \notin NamesOf(prev))
        => (/\ res.status = 201
            /\ Cardinality(ListedAs(Normalize(req.name.s))) = 1
            /\ \A i \in ListedAs(Normalize(req.name.s)) : tasks[i].done = req.done.b)

\* C5 as amended: for every string name of 1 to 50 characters (untrimmed) whose
\* lower-cased form is not present and every boolean done, a create succeeds
\* with status 201 and a list request right after it shows exactly one task
\* with the lower-cased name, which has the given done.
C5_CreateThenListLowerCased ==
    (/\ IsPost
     /\ TypeOf(req.name) = "string"
     /\ Len(req.name.s) \in 1..MaxNameLength
     /\ TypeOf(req.done) = "boolean"
     /\ ToLowerCase(req.name.s) \notin NamesOf(prev))
        => (/\ res.status = 201
            /\ Cardinality(ListedAs(ToLowerCase(req.name.s))) = 1
            /\ \A i \in ListedAs(ToLowerCase(req.name.s)) : tasks[i].done = req.done.b)

\* a name of 50 capitals created with done = true
C5_Witness ==
    /\ IsPost
    /\ req.name = Str(LongestName)
    /\ req.done = Bool(TRUE)
    /\ res.status = 201
    /\ tasks[Len(tasks)].name = ToLowerCase(LongestName)

----------------------------------------------------------------------------
(* C6 *)

\* the name rule of the specification: a string of 1 to 30 characters after
\* trimming
NameValidAsSpecified(name) ==
    TypeOf(name) = "string" /\ Len(Trim(name.s)) \in 1..30

\* the name rule of the source: a string of 1 to 50 characters
NameValidAsCoded(name) ==
    TypeOf(name) = "string" /\ Len(name.s) \in 1..MaxNameLength

\* C6 as stated: a create is rejected with a validation error (status 400) and
\* leaves the list unchanged whenever its name is missing, not a string, empty
\* or blank, or longer than 30 characters after trimming; a string name of 1 to
\* 30 characters after trimming never gets a name validation error.
C6_NameValidationAsSpecified ==
    IsPost =>
        /\ ~NameValidAsSpecified(req.name)
              => (res.status = 400 /\ res.kind = "validation" /\ tasks = prev)
        /\ NameValidAsSpecified(req.name) => ~HasError("name")

\* C6 as amended: a create is rejected with a validation error (status 400)
\* naming the field name and leaves the list unchanged whenever its name is
\* missing, not a string, empty, or longer than 50 characters (untrimmed); a
\* string name of 1 to 50 characters never gets a name validation error.
C6_NameValidationAsCoded ==
    IsPost =>
        /\ ~NameValidAsCoded(req.name)
              => (/\ res.status = 400
                  /\ res.kind = "validation"
                  /\ HasError("name")
                  /\ tasks = prev)
        /\ NameValidAsCoded(req.name) => ~HasError("name")

\* a name of 51 characters rejected although done is valid
C6_Witness ==
    /\ IsPost
    /\ req.name = Str(TooLongName)
    /\ req.done = Bool(TRUE)
    /\ res.status = 400
    /\ HasError("name")

----------------------------------------------------------------------------
(* C7 *)

\* C7 as stated: a create with a valid, unused name and no done field succeeds
\* with status 201 and the stored task has done = false.
C7_OmittedDoneDefaultsToFalse ==
    (/\ IsPost
     /\ req.done = Undefined
     /\ NameValidAsSpecified(req.name)
     /\ NameValidAsCoded(req.name)
     /\ Normalize(req.name.s) \notin NamesOf(prev)
     /\ ToLowerCase(req.name.s) \notin NamesOf(prev))
        => (/\ res.status = 201
            /\ Len(tasks) = Len(prev) + 1
            /\ tasks[Len(tasks)].done = FALSE)

\* C7 as amended: a create with a valid, unused name and no done field is
\* rejected with status 400 and the validation error "Must be a boolean value"
\* for done, and no task is stored.
C7_OmittedDoneRejected ==
    (/\ IsPost
     /\ req.done = Undefined
     /\ NameValidAsCoded(req.name)
     /\ ToLowerCase(req.name.s) \notin NamesOf(prev))
        => (/\ res.status = 400
            /\ res.validationErrors = {<<"done", "Must be a boolean value">>}
            /\ tasks = prev)

\* the unused name "a" posted without done
C7_Witness ==
    /\ IsPost
    /\ req.name = Str(<<"a">>)
    /\ req.done = Undefined
    /\ <<"a">> \notin NamesOf(prev)
    /\ res.status = 400

----------------------------------------------------------------------------
(* C8 *)

\* C8 as stated: the validation errors of a create have an entry for name
\* exactly when the name breaks its rule and an entry for done exactly when done
\* is present and not a boolean.
C8_EntriesAsSpecified ==
    IsPost =>
        /\ HasError("name") <=> ~NameValidAsSpecified(req.name)
        /\ HasError("done") <=>
              (TypeOf(req.done) # "undefined" /\ TypeOf(req.done) # "boolean")

\* C8 as amended: the validation errors of a create have an entry for name
\* exactly when the name is not a string of 1 to 50 characters and an entry for
\* done exactly when done is not a boolean (an omitted done included); the
\* request is rejected with status 400 and these entries exactly when there is
\* one.
C8_EntriesAsCoded ==
    IsPost =>
        /\ HasError("name") <=> ~NameValidAsCoded(req.name)
        /\ HasError("done") <=> TypeOf(req.done) # "boolean"
        /\ (~NameValidAsCoded(req.name) \/ TypeOf(req.done) # "boolean")
              <=> (res.status = 400 /\ res.kind = "validation")

\* a create with an invalid name and an invalid done: both entries
C8_Witness ==
    /\ IsPost
    /\ ~NameValidAsCoded(req.name)
    /\ TypeOf(req.done) = "string"
    /\ HasError("name")
    /\ HasError("done")

----------------------------------------------------------------------------
(* C9 *)

\* C9: an update of an existing id with only {done: true} succeeds with status
\* 200, sets that task's done to true, leaves its id, name and createdAt
\* unchanged, and leaves every other task and the length and order of the list
\* unchanged.
C9_DoneOnlyUpdate ==
    (/\ IsPatch
     /\ req.name = Undefined
     /\ req.done = Bool(TRUE)
     /\ req.id \in IdsOf(prev))
        => (/\ res.status = 200
            /\ Len(tasks) = Len(prev)
            /\ \A i \in 1..Len(prev) :
                  IF prev[i].id = req.id
                  THEN /\ tasks[i].done = TRUE
                       /\ tasks[i].id = prev[i].id
                       /\ tasks[i].name = prev[i].name
                       /\ tasks[i].createdAt = prev[i].createdAt
                       /\ res.task = tasks[i]
                  ELSE tasks[i] = prev[i])

\* the created task of a list of 4, not done, set to done
C9_Witness ==
    /\ IsPatch
    /\ req.name = Undefined
    /\ req.done = Bool(TRUE)
    /\ req.id = 4
    /\ Len(prev) = 4
    /\ prev[4].done = FALSE
    /\ tasks[4].done = TRUE

----------------------------------------------------------------------------
(* C10 *)

\* C10: an update of an existing id that provides only a valid name succeeds,
\* sets the task's name to the normalized name and leaves its done untouched;
\* an update that provides no field at all succeeds and changes nothing.
C10_UpdateMergesProvidedFields ==
    (IsPatch /\ req.id \in IdsOf(prev) /\ req.done = Undefined)
        => LET i == FindById(prev, req.id)
           IN  IF req.name = Undefined
               THEN res.status = 200 /\ tasks = prev
               ELSE (NameValidAsSpecified(req.name) /\ NameValidAsCoded(req.name))
                      => (/\ res.status = 200
                          /\ tasks[i].name = Normalize(req.name.s)
                          /\ tasks[i].done = prev[i].done)

\* The name of the body is not merged even when done is provided and valid.
UpdateMergesNameBesideDone ==
    (/\ IsPatch
     /\ req.id \in IdsOf(prev)
     /\ TypeOf(req.done) = "boolean"
     /\ NameValidAsCoded(req.name))
        => tasks[FindById(prev, req.id)].name = ToLowerCase(req.name.s)

----------------------------------------------------------------------------
(* C11 *)

\* the response has no body
EmptyBody ==
    /\ res.kind \in {"none", "empty"}
    /\ res.errorMessage = ""
    /\ res.validationErrors = {}

\* C11 as stated: an update with valid fields and an id that belongs to no task
\* of the list is answered with status 404 and an empty body, and the list is
\* unchanged.
C11_UnknownIdNotFoundEmpty ==
    (IsPatch /\ TypeOf(req.done) = "boolean" /\ req.id \notin IdsOf(prev))
        => (res.status = 404 /\ EmptyBody /\ tasks = prev)

\* C11 as amended: an update with a boolean done and an id that belongs to no
\* task of the list is answered with status 404 and the text body "Not Found",
\* and the list is unchanged.
C11_UnknownIdNotFound ==
    (IsPatch /\ TypeOf(req.done) = "boolean" /\ req.id \notin IdsOf(prev))
        => (/\ res.status = 404
            /\ res.kind = "text"
            /\ res.errorMessage = "Not Found"
            /\ tasks = prev)

\* an update of the id no task has yet, on a list with a created task
C11_Witness ==
    /\ IsPatch
    /\ req.done = Bool(TRUE)
    /\ Len(prev) = 4
    /\ req.id = 5
    /\ res.status = 404

----------------------------------------------------------------------------
(* C12 *)

IsDelete == req.method = "DELETE" /\ req.key = ""

\* C12: a delete of an id of the list answers 204 and removes exactly
\* that task, leaving the others and their order unchanged; a delete of an id
\* not in the list answers 404 and leaves the list unchanged.
C12_DeleteRemovesTask ==
    IsDelete =>
        IF req.id \in IdsOf(prev)
        THEN /\ res.status = 204
             /\ tasks = SelectSeq(prev, LAMBDA task : task.id # req.id)
        ELSE res.status = 404 /\ tasks = prev

----------------------------------------------------------------------------
(* C13 *)

\* a request of the keyed interface; the program issues no key
IsKeyed == req.key # ""

\* C13: every create, list, update and delete request made with an
\* API key that was never issued is answered with 401 and neither reads nor
\* changes the task list.
C13_UnissuedKeyUnauthorized ==
    IsKeyed =>
        (res.status = 401 /\ res.task = NoTask /\ res.list = <<>> /\ tasks = prev)

----------------------------------------------------------------------------
(* C14 *)

\* the list a GET /tasks of the client is answered with: line 187 sends the one
\* `tasks` array whoever asks
ListSeenBy(client, list) == GetTasks(list).res.list

\* C14: a create, update or delete of one client leaves the task list seen by
\* any other client unchanged.
C14_SessionsIsolated ==
    (req.op \in {"post", "patch"} \/ IsDelete)
        => \A other \in Clients \ {req.client} :
              ListSeenBy(other, tasks) = ListSeenBy(other, prev)

----------------------------------------------------------------------------
(* C17 *)

----------------------------------------------------------------------------
(* C18 *)

\* C18: the list before any request is received holds exactly the 3 seeded tasks, two done
\* and one not, with pairwise distinct names and ids; listing after the first
\* successful create returns 4 tasks.
C18_FreshListSeeded ==
    /\ (req = NoRequest /\ NoneInFlight) =>
          /\ Len(tasks) = 3
          /\ Cardinality({i \in 1..Len(tasks) : tasks[i].done}) = 2
          /\ Cardinality({i \in 1..Len(tasks) : ~tasks[i].done}) = 1
          /\ Cardinality(NamesOf(tasks)) = 3
          /\ Cardinality(IdsOf(tasks)) = 3
    /\ (IsPost /\ res.status = 201 /\ Len(prev) = 3)
          => Len(GetTasks(tasks).res.list) = 4

\* the first successful create
C18_Witness ==
    /\ IsPost
    /\ res.status = 201
    /\ Len(prev) = 3
    /\ Len(tasks) = 4

----------------------------------------------------------------------------
(* C19 *)

\* C19: no two tasks of the list share an id, a created task gets an id that no
\* task of the list has, and no request changes the id or the createdAt of a
\* task of the list.
C19_TaskIdentityStable ==
    /\ \A i, j \in 1..Len(tasks) : i # j => tasks[i].id # tasks[j].id
    /\ (IsPost /\ res.status = 201) => res.task.id \notin IdsOf(prev)
    /\ Len(tasks) >= Len(prev)
    /\ \A i \in 1..Len(prev) :
          /\ tasks[i].id = prev[i].id
          /\ tasks[i].createdAt = prev[i].createdAt

\* an update of a created task
C19_Witness ==
    /\ IsPatch
    /\ res.status = 200
    /\ req.id = 4
    /\ tasks[4].done # prev[4].done
    /\ tasks[4].createdAt = prev[4].createdAt
    /\ tasks[4].createdAt > LoadInstant

----------------------------------------------------------------------------
(* C16 *)

IsListed(list, task) == \E i \in 1..Len(list) : list[i] = task

\* what every callback keeps with requests in flight, the size of the list
\* being bounded by cap: no two tasks share a normalized name, a successful
\* create adds its task and removes none but the oldest, a successful update
\* changes the done of its task and nothing else, any other callback leaves
\* the list alone, and a request is not served before its timer fires
ConsistentUpTo(cap) ==
    /\ \A i, j \in 1..Len(tasks) :
          i # j => Normalize(tasks[i].name) # Normalize(tasks[j].name)
    /\ Len(tasks) <= cap
    /\ (IsPost /\ res.status = 201) =>
          /\ IsListed(tasks, res.task)
          /\ ~IsListed(prev, res.task)
          /\ \A i \in 2..Len(prev) : IsListed(tasks, prev[i])
    /\ (IsPatch /\ res.status = 200) =>
          /\ tasks = [prev EXCEPT ![FindById(prev, req.id)].done = req.done.b]
          /\ IsListed(tasks, res.task)
    /\ ~((IsPost /\ res.status = 201) \/ (IsPatch /\ res.status = 200)) =>
          tasks = prev
    /\ \A n \in Timers : Pending(n) => responses[n] = 0

\* C16: with create and update requests in flight together, each callback
\* running after its delay, the list stays consistent: two creates with the same
\* normalized name never both succeed, no successful create or update is
\* lost, and the list never holds more than 10 tasks.
C16_ConcurrentListConsistent == ConsistentUpTo(10)

\* the same with the limit that line 159 compares the length to
ConcurrentListConsistentBelowTasksLimit == ConsistentUpTo(TasksLimit)

\* two creates with the same name in flight together: the first callback has
\* created the task, the other is still to run
ConcurrentCreatesInFlight ==
    /\ IsPost
    /\ res.status = 201
    /\ \E i \in 1..Len(timers) :
          /\ timers[i].request.op = "post"
          /\ timers[i].request.name = req.name

----------------------------------------------------------------------------
(* C20 *)

\* C20: every create, list and update request whose timer is armed eventually
\* has received exactly one response, its timer having fired, and no request
\* ever receives two responses or one before its timer fires.
C20_ExactlyOneResponse ==
    \A n \in Timers :
        /\ [](responses[n] <= 1)
        /\ [](Pending(n) => responses[n] = 0)
        /\ Pending(n) ~> (~Pending(n) /\ responses[n] = 1)

\* an update of a task that does not exist has been answered once with 404,
\* while the create that would add the task is still in flight
C20_Witness ==
    /\ IsPatch
    /\ res.status = 404
    /\ ~Pending(1)
    /\ responses[1] = 1
    /\ Len(timers) = 1
    /\ timers[1].n = 2
    /\ timers[1].request.op = "post"
    /\ timers[1].request.name = Str(<<"a">>)
    /\ responses[2] = 0

====
